---------------------------- MODULE Spec2Model ----------------------------
(***************************************************************************)
(* A model of the two source files of the repository:                      *)
(*   packaging/pre_build_script.sh          (the build-preparation script) *)
(*   examples/distributed_inference/plugins/common/mpiUtils.h              *)
(*                                          (the MPI wrapper)              *)
(* Each part has its own specification over the shared variables:          *)
(*   SpecBuild  the script, line by line                                   *)
(*   SpecFwd    calls of the MpiComm and MpiRequest methods                *)
(*   SpecTyped  bcastValue<T>, send<T> and recv<T> over the value types    *)
(*   SpecConv   MpiTypeConverter<T> applied to pairs of types              *)
(*   SpecComm   construction, move and destruction of MpiComm objects      *)
(*   SpecVec    bcast(std::vector<T>&, root) on every rank of a group      *)
(***************************************************************************)
EXTENDS Integers, Sequences, FiniteSets, TLC

VARIABLES
    \* ---- pre_build_script.sh ----
    pc,            \* the line the script is about to run
    cuVersion,     \* $CU_VERSION, a sequence of characters (<<>>: unset)
    pyproject,     \* pyproject.toml, a sequence of requirements
    pyproject0,    \* pyproject.toml as it was when the script started
    torch,         \* the torch importable by python: "none", "old", "new"
    installOk,     \* whether line 23's pip install succeeded
    env,           \* the environment: variable name -> value ("": empty)
    exported,      \* the variables the script itself has exported so far
    moduleBazel    \* MODULE.bazel as tokens (NoFile: not written yet)

buildVars == <<pc, cuVersion, pyproject, pyproject0, torch, installOk, env,
               exported, moduleBazel>>

VARIABLES
    \* ---- mpiUtils.h: one process calling the wrapper ----
    aborted,       \* a failed check has ended the process
    invocation,    \* the wrapper method called last, with its arguments
    trace,         \* what that call did: type-tag lookups and native calls
    requests,      \* MpiRequests handed out by bcastAsync and not yet waited on
    prevTyped      \* the typed helper call before the last one (SpecTyped)

fwdVars == <<aborted, invocation, trace, requests, prevTyped>>

VARIABLES
    \* ---- mpiUtils.h: the type-tag table ----
    build,         \* the feature macros the build defines
    convA, convB   \* two uses of MpiTypeConverter: the type and its tag

convVars == <<build, convA, convB>>

VARIABLES
    \* ---- mpiUtils.h: MpiComm objects and the native communicators ----
    objects,       \* id -> [live, mComm, mFreeComm]: world(), session() and
                   \* the MpiComm objects of the program
    released,      \* native communicator -> times the wrapper released it
    owned,         \* native communicator -> constructions with freeComm=true
    constructed,   \* constructions from a native handle so far
    sessionSet     \* the communicator session() was last overridden with

commVars == <<objects, released, owned, constructed, sessionSet>>

VARIABLES
    \* ---- mpiUtils.h: all ranks in bcast(std::vector<T>&, root) ----
    vroot,         \* the root every rank passes
    vtype,         \* the element type T
    vec,           \* rank -> its vector
    vec0,          \* rank -> its vector before the call
    vpc,           \* rank -> where it is in the call
    vecSize,       \* rank -> its local vecSize
    sizeSent,      \* rank -> the count it passed into the first broadcast
    vtrace,        \* rank -> its lookups and native calls
    sizeMsg,       \* the count the root's first broadcast delivers
    dataMsg        \* the payload the root's second broadcast delivers

vecVars == <<vroot, vtype, vec, vec0, vpc, vecSize, sizeSent, vtrace, sizeMsg,
             dataMsg>>

vars == <<buildVars, fwdVars, convVars, commVars, vecVars>>

(***************************************************************************)
(*                  mpiUtils.h: types and type tags                        *)
(***************************************************************************)

\* The enumerators of MpiType.
MpiType ==
    {"kBYTE", "kHALF", "kFLOAT", "kDOUBLE", "kBOOL", "kINT8", "kUINT8",
     "kINT32", "kUINT32", "kINT64", "kUINT64", "kFP8", "kBF16", "kCHAR"}

\* The build's feature macros.
BuildFlags == {"ENABLE_FP8", "ENABLE_BF16"}

\* The C++ types MpiTypeConverter is specialised for in a build with the
\* macros `flags` defined.
Specialised(flags) ==
    {"std::byte", "half", "float", "double", "bool", "std::int8_t",
     "std::uint8_t", "std::int32_t", "std::uint32_t", "std::int64_t",
     "std::uint64_t", "char"}
    \cup (IF "ENABLE_FP8" \in flags THEN {"__nv_fp8_e4m3"} ELSE {})
    \cup (IF "ENABLE_BF16" \in flags THEN {"__nv_bfloat16"} ELSE {})

\* A slip in the table: std::uint8_t given the tag of std::int8_t.
MpiTypeConverter_uint8AsInt8(T) ==
    CASE T = "std::byte" -> "kBYTE"
      [] T = "half" -> "kHALF"
      [] T = "float" -> "kFLOAT"
      [] T = "double" -> "kDOUBLE"
      [] T = "bool" -> "kBOOL"
      [] T = "std::int8_t" -> "kINT8"
      [] T = "std::uint8_t" -> "kINT8"
      [] T = "std::int32_t" -> "kINT32"
      [] T = "std::uint32_t" -> "kUINT32"
      [] T = "std::int64_t" -> "kINT64"
      [] T = "std::uint64_t" -> "kUINT64"
      [] T = "char" -> "kCHAR"
      [] T = "__nv_fp8_e4m3" -> "kFP8"
      [] T = "__nv_bfloat16" -> "kBF16"

\* MpiTypeConverter<T>::value.
MpiTypeConverter(T) ==
    CASE T = "std::byte" -> "kBYTE"
      [] T = "half" -> "kHALF"
      [] T = "float" -> "kFLOAT"
      [] T = "double" -> "kDOUBLE"
      [] T = "bool" -> "kBOOL"
      [] T = "std::int8_t" -> "kINT8"
      [] T = "std::uint8_t" -> "kUINT8"
      [] T = "std::int32_t" -> "kINT32"
      [] T = "std::uint32_t" -> "kUINT32"
      [] T = "std::int64_t" -> "kINT64"
      [] T = "std::uint64_t" -> "kUINT64"
      [] T = "char" -> "kCHAR"
      [] T = "__nv_fp8_e4m3" -> "kFP8"
      [] T = "__nv_bfloat16" -> "kBF16"

\* The value types the typed helpers are tried with: the specialised ones, a
\* fundamental type with no specialisation, and a trivially copyable struct.
ValueTypes == Specialised(BuildFlags) \cup {"short", "Pod"}

CvQualifiers == {"", "const"}

\* A possibly cv-qualified type.
CvType(base, cv) == [base |-> base, cv |-> cv]

\* std::remove_cv_t<T>.
RemoveCv(T) == [T EXCEPT !.cv = ""]

\* std::is_fundamental_v<T>, which holds of the arithmetic types whatever
\* their cv-qualification; std::byte is an enumeration and half, fp8 and bf16
\* are classes.
IsFundamental(T) ==
    T.base \in {"float", "double", "bool", "std::int8_t", "std::uint8_t",
                "std::int32_t", "std::uint32_t", "std::int64_t",
                "std::uint64_t", "char", "short"}

\* sizeof(T), in bytes; cv-qualification does not change it.
SizeOf(T) ==
    CASE T.base \in {"std::byte", "bool", "std::int8_t", "std::uint8_t",
                     "char", "__nv_fp8_e4m3"} -> 1
      [] T.base \in {"half", "short", "__nv_bfloat16"} -> 2
      [] T.base \in {"float", "std::int32_t", "std::uint32_t"} -> 4
      [] T.base \in {"double", "std::int64_t", "std::uint64_t"} -> 8
      [] T.base = "Pod" -> 12

\* Whether the if constexpr of a typed helper compiles for T: the fundamental
\* branch names MpiTypeConverter<remove_cv_t<T>>::value, which only the
\* specialisations have.
Instantiable(T) ==
    IsFundamental(RemoveCv(T)) => RemoveCv(T).base \in Specialised(BuildFlags)

(***************************************************************************)
(*             mpiUtils.h: one process calling the wrapper                 *)
(***************************************************************************)

NumRanks == 2
MaxTag == 1
MaxBytes == 2
MaxLen == 2
MaxRequests == 1

Ranks == 0..(NumRanks - 1)
Tags == 0..MaxTag

ReturnCodes == {"MPI_SUCCESS", "MPI_ERR_OTHER"}

\* runtime::MemoryType.
MemoryType == {"kGPU", "kCPU", "kPINNED"}

\* An IBuffer: data(), getSizeInBytes(), getMemoryType().
IBuffers ==
    [data : {"buf.data"}, size : 0..MaxBytes, mem : MemoryType]

NoBuffer == [data |-> "-", size |-> 0, mem |-> "-"]
NoType == CvType("-", "")
NoArg == 0 - 1

\* What a call has done so far: whether a check has ended the process, and
\* the lookups and native calls made, in order.
Process(ab, tr) == [aborted |-> ab, trace |-> tr]

Lookup(dtype) ==
    [kind |-> "lookup", fn |-> "getMpiDtype", buffer |-> "-", count |-> NoArg,
     dtype |-> dtype, peer |-> NoArg, tag |-> NoArg, mem |-> "-", rc |-> "-"]

Native(fn, buffer, count, dtype, peer, tag, mem, rc) ==
    [kind |-> "native", fn |-> fn, buffer |-> buffer, count |-> count,
     dtype |-> dtype, peer |-> peer, tag |-> tag, mem |-> mem, rc |-> rc]

Did(p, event) == [p EXCEPT !.trace = Append(@, event)]

\* TLLM_CHECK / TLLM_CHECK_WITH_INFO (common/assert.h): a failed check ends
\* the process with a diagnostic.
TllmCheck(p, cond) == IF cond THEN p ELSE [p EXCEPT !.aborted = TRUE]

\* TLLM_MPI_CHECK(cmd), on the return code e of cmd.
TllmMpiCheck(p, e) == TllmCheck(p, e = "MPI_SUCCESS")

\* getMpiDtype(dtype).
GetMpiDtype(p, dtype) == Did(p, Lookup(dtype))

\* The out-of-line methods (mpiUtils.cpp): the type-tag lookup, if the method
\* takes a type tag, then one checked native call.
Forward(p, fn, buffer, count, dtype, peer, tag, mem, rc) ==
    IF p.aborted THEN p
    ELSE LET q == IF dtype = "-" THEN p ELSE GetMpiDtype(p, dtype)
         IN  TllmMpiCheck(
                 Did(q, Native(fn, buffer, count, dtype, peer, tag, mem, rc)),
                 rc)

\* bcast(void*, size_t, MpiType, int).
Bcast(p, buffer, size, dtype, root, mem, rc) ==
    Forward(p, "MPI_Bcast", buffer, size, dtype, root, NoArg, mem, rc)

\* bcastAsync(void*, size_t, MpiType, int).
BcastAsync(p, buffer, size, dtype, root, mem, rc) ==
    Forward(p, "MPI_Ibcast", buffer, size, dtype, root, NoArg, mem, rc)

\* send(void const*, size_t, MpiType, int, int).
Send(p, buffer, size, dtype, dest, tag, mem, rc) ==
    Forward(p, "MPI_Send", buffer, size, dtype, dest, tag, mem, rc)

\* recv(void*, size_t, MpiType, int, int).
Recv(p, buffer, size, dtype, source, tag, mem, rc) ==
    Forward(p, "MPI_Recv", buffer, size, dtype, source, tag, mem, rc)

\* getRank().
GetRank(p, rc) ==
    Forward(p, "MPI_Comm_rank", "-", NoArg, "-", NoArg, NoArg, "-", rc)

\* split(int, int).
Split(p, color, key, rc) ==
    Forward(p, "MPI_Comm_split", "-", NoArg, "-", color, key, "-", rc)

\* allreduce(void const*, void*, int, MpiType, MpiOp).
Allreduce(p, count, dtype, rc) ==
    Forward(p, "MPI_Allreduce", "sendbuf", count, dtype, NoArg, NoArg, "-", rc)

\* allgather(void const*, void*, int, MpiType).
Allgather(p, count, dtype, rc) ==
    Forward(p, "MPI_Allgather", "sendbuf", count, dtype, NoArg, NoArg, "-", rc)

\* barrier().
Barrier(p, rc) ==
    Forward(p, "MPI_Barrier", "-", NoArg, "-", NoArg, NoArg, "-", rc)

\* mprobe(int, int, MPI_Message*, MPI_Status*).
Mprobe(p, source, tag, rc) ==
    Forward(p, "MPI_Mprobe", "-", NoArg, "-", source, tag, "-", rc)

\* MpiRequest::wait(): the return code of MPI_Wait is dropped.
Wait(p, rc) ==
    Did(p, Native("MPI_Wait", "-", NoArg, "-", NoArg, NoArg, "-", rc))

\* bcastAsync(runtime::IBuffer&, int).
BcastAsyncIBuffer(p, buf, root, rc) ==
    LET q == TllmCheck(p, buf.mem /= "kGPU")
    IN  BcastAsync(q, buf.data, buf.size, "kBYTE", root, buf.mem, rc)

\* A slip: the buffer forwarded twice.
BcastIBuffer_twice(p, buf, root, rc) ==
    Bcast(Bcast(p, buf.data, buf.size, "kBYTE", root, buf.mem, rc),
          buf.data, buf.size, "kBYTE", root, buf.mem, rc)

\* bcast(runtime::IBuffer&, int).
BcastIBuffer(p, buf, root, rc) ==
    Bcast(p, buf.data, buf.size, "kBYTE", root, buf.mem, rc)

\* bcastValue<T>(T&, int).
BcastValue(p, T, root, rc) ==
    IF IsFundamental(RemoveCv(T))
    THEN Bcast(p, "&value", 1, MpiTypeConverter(RemoveCv(T).base), root, "-", rc)
    ELSE Bcast(p, "&value", SizeOf(T), "kBYTE", root, "-", rc)

\* Line 247: the element count a rank contributes.
VecSize(rank, root, len) == IF rank = root THEN len ELSE 0

\* A slip: the byte branch passes the element count, not the byte count.
VecPayload_elementCount(T, n) ==
    IF IsFundamental(RemoveCv(T))
    THEN <<n, MpiTypeConverter(RemoveCv(T).base)>>
    ELSE <<n, "kBYTE">>

\* Lines 251-256: the count and type tag of the payload broadcast of a vector
\* of n elements of type T.
VecPayload(T, n) ==
    IF IsFundamental(RemoveCv(T))
    THEN <<n, MpiTypeConverter(RemoveCv(T).base)>>
    ELSE <<n * SizeOf(T), "kBYTE">>

\* bcast<T>(std::vector<T>&, int) as one process runs it: on rank `rank` with
\* a vector of `len` elements, `got` being the count the first broadcast
\* leaves in vecSize on a rank that is not the root.
BcastVector(p, T, rank, len, root, got, rc1, rc2, rc3) ==
    LET p1 == GetRank(p, rc1)
        mine == VecSize(rank, root, len)
        p2 == Bcast(p1, "&vecSize", 1, "kINT64", root, "-", rc2)
        n == IF rank = root THEN mine ELSE got
        pay == VecPayload(T, n)
    IN  Bcast(p2, "vec.data", pay[1], pay[2], root, "-", rc3)

\* send(runtime::IBuffer const&, int, int).
SendIBuffer(p, buf, dest, tag, rc) ==
    LET q == TllmCheck(p, buf.mem /= "kGPU")
    IN  Send(q, buf.data, buf.size, "kBYTE", dest, tag, buf.mem, rc)

\* A slip: the element count of the byte branch used for every type.
SendValue_sizeofCount(p, T, dest, tag, rc) ==
    IF IsFundamental(RemoveCv(T))
    THEN Send(p, "&value", SizeOf(T), MpiTypeConverter(RemoveCv(T).base),
              dest, tag, "-", rc)
    ELSE Send(p, "&value", SizeOf(T), "kBYTE", dest, tag, "-", rc)

\* send<T>(T const&, int, int).
SendValue(p, T, dest, tag, rc) ==
    IF IsFundamental(RemoveCv(T))
    THEN Send(p, "&value", 1, MpiTypeConverter(RemoveCv(T).base), dest, tag,
              "-", rc)
    ELSE Send(p, "&value", SizeOf(T), "kBYTE", dest, tag, "-", rc)

\* recv(runtime::IBuffer&, int, int).
RecvIBuffer(p, buf, source, tag, rc) ==
    LET q == TllmCheck(p, buf.mem /= "kGPU")
    IN  Recv(q, buf.data, buf.size, "kBYTE", source, tag, buf.mem, rc)

\* recv<T>(T&, int, int).
RecvValue(p, T, source, tag, rc) ==
    IF IsFundamental(RemoveCv(T))
    THEN Recv(p, "&value", 1, MpiTypeConverter(RemoveCv(T).base), source, tag,
              "-", rc)
    ELSE Recv(p, "&value", SizeOf(T), "kBYTE", source, tag, "-", rc)

Start == Process(FALSE, <<>>)

NoInvocation ==
    [method |-> "none", T |-> NoType, buf |-> NoBuffer, peer |-> NoArg,
     tag |-> NoArg, returned |-> FALSE]

NoTyped == [method |-> "none", T |-> NoType, count |-> NoArg, dtype |-> "-"]

\* The value types a program can instantiate the typed helpers with.
TypedArgs ==
    {T \in {CvType(b, cv) : b \in ValueTypes, cv \in CvQualifiers} :
        Instantiable(T)}

\* The process before its first call into the wrapper.
IdleFwd ==
    /\ aborted = FALSE
    /\ invocation = NoInvocation
    /\ trace = <<>>
    /\ requests = 0
    /\ prevTyped = NoTyped

\* A call of `method` that ran as p says.
Invoke(method, T, buf, peer, tag, p) ==
    /\ ~aborted
    /\ invocation' = [method |-> method, T |-> T, buf |-> buf, peer |-> peer,
                      tag |-> tag, returned |-> ~p.aborted]
    /\ aborted' = p.aborted
    /\ trace' = p.trace
    /\ UNCHANGED <<buildVars, convVars, commVars, vecVars>>

\* The type tags and value types the calls below are tried with.
RawTags == {"kBYTE", "kFLOAT"}
FwdTypes == {CvType("float", ""), CvType("Pod", "")}

\* The return codes of the native calls of one wrapper call: all succeed, or
\* the failAt-th fails.
Rc(failAt, i) == IF failAt = i THEN "MPI_ERR_OTHER" ELSE "MPI_SUCCESS"

CallSplit ==
    \E color \in Ranks, key \in Ranks, rc \in ReturnCodes :
        /\ Invoke("split", NoType, NoBuffer, color, key,
                  Split(Start, color, key, rc))
        /\ UNCHANGED <<requests, prevTyped>>

CallBcastAsync ==
    \E size \in 0..MaxBytes, dtype \in RawTags, root \in Ranks,
       rc \in ReturnCodes :
        /\ requests < MaxRequests
        /\ Invoke("bcastAsync", NoType, NoBuffer, root, NoArg,
                  BcastAsync(Start, "buffer", size, dtype, root, "-", rc))
        /\ requests' = IF rc = "MPI_SUCCESS" THEN requests + 1 ELSE requests
        /\ UNCHANGED prevTyped

CallBcastAsyncIBuffer ==
    \E buf \in IBuffers, root \in Ranks, rc \in ReturnCodes :
        /\ requests < MaxRequests
        /\ LET p == BcastAsyncIBuffer(Start, buf, root, rc)
           IN  /\ Invoke("bcastAsync(IBuffer)", NoType, buf, root, NoArg, p)
               /\ requests' = IF p.aborted THEN requests ELSE requests + 1
        /\ UNCHANGED prevTyped

CallWait ==
    \E rc \in ReturnCodes :
        /\ requests > 0
        /\ Invoke("wait", NoType, NoBuffer, NoArg, NoArg, Wait(Start, rc))
        /\ requests' = requests - 1
        /\ UNCHANGED prevTyped

CallBcast ==
    \E size \in 0..MaxBytes, dtype \in RawTags, root \in Ranks,
       rc \in ReturnCodes :
        /\ Invoke("bcast", NoType, NoBuffer, root, NoArg,
                  Bcast(Start, "buffer", size, dtype, root, "-", rc))
        /\ UNCHANGED <<requests, prevTyped>>

CallBcastIBuffer ==
    \E buf \in IBuffers, root \in Ranks, rc \in ReturnCodes :
        /\ Invoke("bcast(IBuffer)", NoType, buf, root, NoArg,
                  BcastIBuffer(Start, buf, root, rc))
        /\ UNCHANGED <<requests, prevTyped>>

BcastValueCall(T, roots) ==
    \E root \in roots, rc \in ReturnCodes :
        /\ Invoke("bcastValue", T, NoBuffer, root, NoArg,
                  BcastValue(Start, T, root, rc))
        /\ UNCHANGED requests

CallBcastValue ==
    \E T \in FwdTypes : BcastValueCall(T, Ranks) /\ UNCHANGED prevTyped

CallBcastVector ==
    \E T \in FwdTypes, rank \in Ranks, root \in Ranks, len \in 0..MaxLen,
       got \in 0..MaxLen, failAt \in 0..3 :
        /\ rank = root => got = len
        /\ Invoke("bcast(vector)", T, NoBuffer, root, NoArg,
                  BcastVector(Start, T, rank, len, root, got, Rc(failAt, 1),
                              Rc(failAt, 2), Rc(failAt, 3)))
        /\ UNCHANGED <<requests, prevTyped>>

CallSend ==
    \E size \in 0..MaxBytes, dtype \in RawTags, dest \in Ranks, tag \in Tags,
       rc \in ReturnCodes :
        /\ Invoke("send", NoType, NoBuffer, dest, tag,
                  Send(Start, "buffer", size, dtype, dest, tag, "-", rc))
        /\ UNCHANGED <<requests, prevTyped>>

CallSendIBuffer ==
    \E buf \in IBuffers, dest \in Ranks, tag \in Tags, rc \in ReturnCodes :
        /\ Invoke("send(IBuffer)", NoType, buf, dest, tag,
                  SendIBuffer(Start, buf, dest, tag, rc))
        /\ UNCHANGED <<requests, prevTyped>>

SendValueCall(T, dests, tags) ==
    \E dest \in dests, tag \in tags, rc \in ReturnCodes :
        /\ Invoke("send<T>", T, NoBuffer, dest, tag,
                  SendValue(Start, T, dest, tag, rc))
        /\ UNCHANGED requests

CallSendValue ==
    \E T \in FwdTypes : SendValueCall(T, Ranks, Tags) /\ UNCHANGED prevTyped

CallRecv ==
    \E size \in 0..MaxBytes, dtype \in RawTags, source \in Ranks,
       tag \in Tags, rc \in ReturnCodes :
        /\ Invoke("recv", NoType, NoBuffer, source, tag,
                  Recv(Start, "buffer", size, dtype, source, tag, "-", rc))
        /\ UNCHANGED <<requests, prevTyped>>

CallRecvIBuffer ==
    \E buf \in IBuffers, source \in Ranks, tag \in Tags, rc \in ReturnCodes :
        /\ Invoke("recv(IBuffer)", NoType, buf, source, tag,
                  RecvIBuffer(Start, buf, source, tag, rc))
        /\ UNCHANGED <<requests, prevTyped>>

RecvValueCall(T, sources, tags) ==
    \E source \in sources, tag \in tags, rc \in ReturnCodes :
        /\ Invoke("recv<T>", T, NoBuffer, source, tag,
                  RecvValue(Start, T, source, tag, rc))
        /\ UNCHANGED requests

CallRecvValue ==
    \E T \in FwdTypes : RecvValueCall(T, Ranks, Tags) /\ UNCHANGED prevTyped

CallAllreduce ==
    \E count \in 0..MaxBytes, dtype \in RawTags, rc \in ReturnCodes :
        /\ Invoke("allreduce", NoType, NoBuffer, NoArg, NoArg,
                  Allreduce(Start, count, dtype, rc))
        /\ UNCHANGED <<requests, prevTyped>>

CallAllgather ==
    \E count \in 0..MaxBytes, dtype \in RawTags, rc \in ReturnCodes :
        /\ Invoke("allgather", NoType, NoBuffer, NoArg, NoArg,
                  Allgather(Start, count, dtype, rc))
        /\ UNCHANGED <<requests, prevTyped>>

CallBarrier ==
    \E rc \in ReturnCodes :
        /\ Invoke("barrier", NoType, NoBuffer, NoArg, NoArg, Barrier(Start, rc))
        /\ UNCHANGED <<requests, prevTyped>>

CallMprobe ==
    \E source \in Ranks, tag \in Tags, rc \in ReturnCodes :
        /\ Invoke("mprobe", NoType, NoBuffer, source, tag,
                  Mprobe(Start, source, tag, rc))
        /\ UNCHANGED <<requests, prevTyped>>

NextFwd ==
    \/ CallBcastVector
    \/ CallSplit
    \/ CallBcastAsync
    \/ CallBcastAsyncIBuffer
    \/ CallWait
    \/ CallBcast
    \/ CallBcastIBuffer
    \/ CallBcastValue
    \/ CallSend
    \/ CallSendIBuffer
    \/ CallSendValue
    \/ CallRecv
    \/ CallRecvIBuffer
    \/ CallRecvValue
    \/ CallAllreduce
    \/ CallAllgather
    \/ CallBarrier
    \/ CallMprobe

\* The typed call before the last: what it forwarded.
Typed(inv, tr) ==
    [method |-> inv.method, T |-> inv.T, count |-> tr[Len(tr)].count,
     dtype |-> tr[Len(tr)].dtype]

Remember ==
    prevTyped' = IF invocation.method = "none" THEN NoTyped
                 ELSE Typed(invocation, trace)

\* The typed helpers over every value type, between one pair of ranks under
\* one tag.
TypedBcastValue ==
    \E T \in TypedArgs : BcastValueCall(T, {0}) /\ Remember

TypedSendValue ==
    \E T \in TypedArgs : SendValueCall(T, {0}, {0}) /\ Remember

TypedRecvValue ==
    \E T \in TypedArgs : RecvValueCall(T, {0}, {0}) /\ Remember

NextTyped ==
    \/ TypedBcastValue
    \/ TypedSendValue
    \/ TypedRecvValue

\* The native calls of a trace, in order.
Natives(tr) == SelectSeq(tr, LAMBDA e : e.kind = "native")

Kinds(tr) == [i \in 1..Len(tr) |-> tr[i].kind]

\* C1: every native call that returns something other than MPI_SUCCESS ends
\* the process, and nothing runs after it.
C1_EveryReturnCodeChecked ==
    \A i \in 1..Len(trace) :
        (trace[i].kind = "native" /\ trace[i].rc /= "MPI_SUCCESS")
            => (aborted /\ i = Len(trace))

\* The communication methods C4 lists.
CommunicationMethods ==
    {"split", "bcastAsync", "bcastAsync(IBuffer)", "bcast", "bcast(IBuffer)",
     "bcastValue", "bcast(vector)", "send", "send(IBuffer)", "send<T>",
     "recv", "recv(IBuffer)", "recv<T>", "allreduce", "allgather", "barrier"}

\* C4 as stated: every call of a communication method that returns has made
\* one type-tag lookup and then exactly one native call.
C4_OneLookupOneCall ==
    (invocation.method \in CommunicationMethods /\ invocation.returned)
        => Kinds(trace) = <<"lookup", "native">>

\* C4 as amended: a call that returns has made one type-tag lookup and then
\* one native call with that tag, except that split and barrier, which take
\* no type tag, make the native call alone, and that the vector broadcast
\* queries the rank and then broadcasts twice, each after its own lookup.
C4_ForwardingShape ==
    (invocation.method \in CommunicationMethods /\ invocation.returned)
        => CASE invocation.method = "bcast(vector)" ->
                  /\ Kinds(trace)
                       = <<"native", "lookup", "native", "lookup", "native">>
                  /\ trace[1].fn = "MPI_Comm_rank"
                  /\ trace[3].fn = "MPI_Bcast" /\ trace[5].fn = "MPI_Bcast"
                  /\ trace[2].dtype = trace[3].dtype
                  /\ trace[4].dtype = trace[5].dtype
             [] invocation.method \in {"split", "barrier"} ->
                  Kinds(trace) = <<"native">>
             [] OTHER ->
                  /\ Kinds(trace) = <<"lookup", "native">>
                  /\ trace[1].dtype = trace[2].dtype

C4_Witness ==
    /\ invocation.method = "bcast(vector)"
    /\ invocation.returned
    /\ Len(Natives(trace)) = 3

IBufferOverloads ==
    {"bcastAsync(IBuffer)", "bcast(IBuffer)", "send(IBuffer)", "recv(IBuffer)"}

\* C8: an IBuffer overload called with a GPU buffer ends the process before
\* any native call; with any other buffer it makes one native call, on
\* buf.data() with buf.getSizeInBytes() elements of kBYTE and the caller's
\* root, dest or source and tag.
C8_NoGpuBufferForwarded ==
    invocation.method \in IBufferOverloads =>
        LET n == Natives(trace)
        IN  IF invocation.buf.mem = "kGPU"
            THEN aborted /\ n = <<>>
            ELSE /\ Len(n) = 1
                 /\ n[1].buffer = invocation.buf.data
                 /\ n[1].count = invocation.buf.size
                 /\ n[1].dtype = "kBYTE"
                 /\ n[1].peer = invocation.peer
                 /\ n[1].tag = invocation.tag

\* The count and type tag C7 gives for a value type.
ExpectedPair(T) ==
    IF IsFundamental(T) THEN <<1, MpiTypeConverter(RemoveCv(T).base)>>
    ELSE <<SizeOf(T), "kBYTE">>

\* C7: a typed helper forwards the pair of its value type, and two typed calls
\* on the same type up to cv-qualification, whichever helpers they are,
\* forward the same count and type tag.
C7_TypedPairsAgree ==
    invocation.method /= "none" =>
        LET cur == Typed(invocation, trace)
        IN  /\ <<cur.count, cur.dtype>> = ExpectedPair(cur.T)
            /\ (prevTyped.method /= "none"
                  /\ RemoveCv(prevTyped.T) = RemoveCv(cur.T))
               => (prevTyped.count = cur.count /\ prevTyped.dtype = cur.dtype)

C7_Witness ==
    /\ prevTyped.method = "send<T>"
    /\ prevTyped.T = CvType("float", "const")
    /\ invocation.method = "recv<T>"
    /\ invocation.T = CvType("float", "")
    /\ invocation.returned

(***************************************************************************)
(*                 mpiUtils.h: uses of MpiTypeConverter                    *)
(***************************************************************************)

NoConv == [T |-> "-", value |-> "-"]

\* MpiTypeConverter<T>::value, read in a build that has the specialisation.
Converted(T) == [T |-> T, value |-> MpiTypeConverter(T)]

IdleConv ==
    /\ build = BuildFlags
    /\ convA = NoConv
    /\ convB = NoConv

ConvertA ==
    \E T \in Specialised(build) :
        /\ convA' = Converted(T)
        /\ UNCHANGED <<build, convB>>
        /\ UNCHANGED <<buildVars, fwdVars, commVars, vecVars>>

ConvertB ==
    \E T \in Specialised(build) :
        /\ convB' = Converted(T)
        /\ UNCHANGED <<build, convA>>
        /\ UNCHANGED <<buildVars, fwdVars, commVars, vecVars>>

NextConv ==
    \/ ConvertA
    \/ ConvertB

\* The enumerator named after each C++ type.
MatchingEnumerator ==
    [T \in Specialised(BuildFlags) |->
        CASE T = "std::byte" -> "kBYTE"
          [] T = "half" -> "kHALF"
          [] T = "float" -> "kFLOAT"
          [] T = "double" -> "kDOUBLE"
          [] T = "bool" -> "kBOOL"
          [] T = "std::int8_t" -> "kINT8"
          [] T = "std::uint8_t" -> "kUINT8"
          [] T = "std::int32_t" -> "kINT32"
          [] T = "std::uint32_t" -> "kUINT32"
          [] T = "std::int64_t" -> "kINT64"
          [] T = "std::uint64_t" -> "kUINT64"
          [] T = "char" -> "kCHAR"
          [] T = "__nv_fp8_e4m3" -> "kFP8"
          [] T = "__nv_bfloat16" -> "kBF16"]

\* C10: a converted type has the MpiType enumerator of its own name, and two
\* different types never have the same one.
C10_ConverterInjective ==
    /\ \A c \in {convA, convB} :
          c /= NoConv => (c.value \in MpiType /\ c.value = MatchingEnumerator[c.T])
    /\ (convA /= NoConv /\ convB /= NoConv /\ convA.T /= convB.T)
          => convA.value /= convB.value

C10_Witness ==
    /\ convA.T = "std::uint8_t"
    /\ convB.T = "std::int8_t"
    /\ convA.value /= convB.value

(***************************************************************************)
(*          mpiUtils.h: MpiComm objects and native communicators           *)
(***************************************************************************)

MaxWrappers == 2
MaxConstructs == 3

\* The native communicators of the process.
Comms == {"MPI_COMM_WORLD", "commA", "commB"}

\* The objects: the two function-local statics and the program's own.
World == 0
Session == 1
Slots == 2..(1 + MaxWrappers)
Objects == {World, Session} \cup Slots

Dead == [live |-> FALSE, mComm |-> "-", mFreeComm |-> FALSE]

\* MpiComm(MPI_Comm g, bool freeComm).
MpiComm(g, freeComm) == [live |-> TRUE, mComm |-> g, mFreeComm |-> freeComm]

\* ~MpiComm(): the communicators the destructor releases.
Frees(w) == IF w.live /\ w.mFreeComm THEN {w.mComm} ELSE {}

\* The copy constructor left defaulted instead of deleted.
CopyConstructors_defaulted == {"copy"}

\* The copy constructors of MpiComm: none, both copy operations are deleted.
CopyConstructors == {}

\* What a move leaves in its source: the handle, no longer owned.
MovedFrom(w) == [w EXCEPT !.mFreeComm = FALSE]

\* operator!= written where operator== was meant.
OperatorEq_negated(lhs, rhs) == lhs.mComm /= rhs.mComm

\* operator==(MpiComm const&).
OperatorEq(lhs, rhs) == lhs.mComm = rhs.mComm

\* operator!=(MpiComm const&).
OperatorNe(lhs, rhs) == ~OperatorEq(rhs, lhs)

\* The objects after `freed` was released.
Release(freed) ==
    released' = [c \in Comms |-> IF c \in freed THEN released[c] + 1
                                 ELSE released[c]]

\* world() and session(): both wrap MPI_COMM_WORLD and do not own it.
IdleComm ==
    /\ objects = [o \in Objects |->
                    IF o \in {World, Session}
                    THEN MpiComm("MPI_COMM_WORLD", FALSE) ELSE Dead]
    /\ released = [c \in Comms |-> 0]
    /\ owned = [c \in Comms |-> 0]
    /\ constructed = 0
    /\ sessionSet = "-"

CommFrame == UNCHANGED <<buildVars, fwdVars, convVars, vecVars>>

\* MpiComm w{g, freeComm};
Construct ==
    \E o \in Slots, g \in Comms, freeComm \in BOOLEAN :
        /\ ~objects[o].live
        /\ constructed < MaxConstructs
        /\ objects' = [objects EXCEPT ![o] = MpiComm(g, freeComm)]
        /\ owned' = IF freeComm THEN [owned EXCEPT ![g] = @ + 1] ELSE owned
        /\ constructed' = constructed + 1
        /\ UNCHANGED <<released, sessionSet>>
        /\ CommFrame

\* The end of the lifetime of one of the program's objects.
Destroy ==
    \E o \in Slots :
        /\ objects[o].live
        /\ Release(Frees(objects[o]))
        /\ objects' = [objects EXCEPT ![o] = Dead]
        /\ UNCHANGED <<owned, constructed, sessionSet>>
        /\ CommFrame

\* MpiComm dst{src}: by the move constructor, or by a copy constructor if
\* the class has one; world() is const and cannot be moved from.
InitFromOther ==
    \E dst \in Slots, src \in Slots \cup {Session},
       how \in {"move"} \cup CopyConstructors :
        /\ ~objects[dst].live
        /\ objects[src].live
        /\ objects' = [objects EXCEPT
                          ![dst] = objects[src],
                          ![src] = IF how = "move" THEN MovedFrom(objects[src])
                                   ELSE objects[src]]
        /\ UNCHANGED <<released, owned, constructed, sessionSet>>
        /\ CommFrame

\* dst = std::move(src): dst releases what it owns and takes over the handle
\* and the flag of src; dst and src may be the same object.
MoveAssign ==
    \E dst \in Slots \cup {Session}, src \in Slots \cup {Session} :
        /\ objects[dst].live
        /\ objects[src].live
        /\ Release(Frees(objects[dst]))
        /\ LET taken == [objects EXCEPT ![dst] = objects[src]]
           IN  objects' = [taken EXCEPT ![src] = MovedFrom(taken[src])]
        /\ sessionSet' = IF dst = Session THEN objects[src].mComm
                         ELSE sessionSet
        /\ UNCHANGED <<owned, constructed>>
        /\ CommFrame

NextComm ==
    \/ Construct
    \/ Destroy
    \/ InitFromOther
    \/ MoveAssign

\* The live wrappers that own communicator c.
LiveOwners(c) ==
    {o \in Objects : objects[o].live /\ objects[o].mFreeComm
                     /\ objects[o].mComm = c}

DtypeBytes(dtype) ==
    CASE dtype \in {"kBYTE", "kBOOL", "kINT8", "kUINT8", "kFP8", "kCHAR"} -> 1
      [] dtype \in {"kHALF", "kBF16"} -> 2
      [] dtype \in {"kFLOAT", "kINT32", "kUINT32"} -> 4
      [] dtype \in {"kDOUBLE", "kINT64", "kUINT64"} -> 8

\* vec.resize(n): the first n elements kept, value-initialised ones added.
Resize(v, n) == [i \in 1..n |-> IF i <= Len(v) THEN v[i] ELSE 0]

\* MPI_Bcast on a rank that is not the root: `count` elements of `dtype`
\* arrive in the buffer, a vector of T; an element is overwritten when all of
\* its bytes are.
Received(buf, T, count, dtype, msg) ==
    [i \in 1..Len(buf) |->
        IF i * SizeOf(T) <= count * DtypeBytes(dtype) /\ i <= Len(msg)
        THEN msg[i] ELSE buf[i]]

SeqsOver(S, n) == UNION {[1..k -> S] : k \in 0..n}

\* The element types, and the elements of the root's and of the other ranks'
\* vectors before the call.
VecTypes == {CvType("float", ""), CvType("Pod", "")}
RootElems == {1, 2}
OtherElems == {9}

NoMsg == [sent |-> FALSE, data |-> <<>>]

InitVec ==
    /\ vroot \in Ranks
    /\ vtype \in VecTypes
    /\ vec \in [Ranks -> SeqsOver(RootElems \cup OtherElems, MaxLen)]
    /\ \A r \in Ranks :
          \A i \in 1..Len(vec[r]) :
              vec[r][i] \in (IF r = vroot THEN RootElems ELSE OtherElems)
    /\ vec0 = vec
    /\ vpc = [r \in Ranks |-> "idle"]
    /\ vecSize = [r \in Ranks |-> 0]
    /\ sizeSent = [r \in Ranks |-> NoArg]
    /\ vtrace = [r \in Ranks |-> <<>>]
    /\ sizeMsg = NoArg
    /\ dataMsg = NoMsg

IdleVec ==
    /\ vroot = 0
    /\ vtype = NoType
    /\ vec = [r \in Ranks |-> <<>>]
    /\ vec0 = vec
    /\ vpc = [r \in Ranks |-> "idle"]
    /\ vecSize = [r \in Ranks |-> 0]
    /\ sizeSent = [r \in Ranks |-> NoArg]
    /\ vtrace = [r \in Ranks |-> <<>>]
    /\ sizeMsg = NoArg
    /\ dataMsg = NoMsg

VecFrame == UNCHANGED <<buildVars, fwdVars, convVars, commVars>>

\* Where rank r is after a step that ran as p says.
VecStep(r, p, next) ==
    /\ vtrace' = [vtrace EXCEPT ![r] = p.trace]
    /\ vpc' = [vpc EXCEPT ![r] = IF p.aborted THEN "aborted" ELSE next]

\* Lines 246-247: getRank() and the local vecSize.
VecEnter ==
    \E r \in Ranks, rc \in ReturnCodes :
        /\ vpc[r] = "idle"
        /\ LET p == GetRank(Process(FALSE, vtrace[r]), rc)
           IN  /\ VecStep(r, p, "size")
               /\ vecSize' = [vecSize EXCEPT ![r] =
                                 IF p.aborted THEN @
                                 ELSE VecSize(r, vroot, Len(vec[r]))]
        /\ UNCHANGED <<vroot, vtype, vec, vec0, sizeSent, sizeMsg, dataMsg>>
        /\ VecFrame

\* Lines 248-249: the broadcast of vecSize and the resize. The root's call
\* delivers its count; another rank's call returns once the root's has.
VecBcastSize ==
    \E r \in Ranks, rc \in ReturnCodes :
        /\ vpc[r] = "size"
        /\ r = vroot \/ sizeMsg /= NoArg
        /\ LET p == Bcast(Process(FALSE, vtrace[r]), "&vecSize", 1, "kINT64",
                          vroot, "-", rc)
               n == IF r = vroot THEN vecSize[r] ELSE sizeMsg
           IN  /\ VecStep(r, p, "data")
               /\ sizeSent' = [sizeSent EXCEPT ![r] = vecSize[r]]
               /\ vecSize' = [vecSize EXCEPT ![r] = IF p.aborted THEN @ ELSE n]
               /\ vec' = [vec EXCEPT ![r] =
                             IF p.aborted THEN @ ELSE Resize(@, n)]
               /\ sizeMsg' = IF r = vroot /\ ~p.aborted THEN vecSize[r]
                             ELSE sizeMsg
        /\ UNCHANGED <<vroot, vtype, vec0, dataMsg>>
        /\ VecFrame

\* Lines 251-256: the broadcast of the payload.
VecBcastData ==
    \E r \in Ranks, rc \in ReturnCodes :
        /\ vpc[r] = "data"
        /\ r = vroot \/ dataMsg.sent
        /\ LET pay == VecPayload(vtype, Len(vec[r]))
               p == Bcast(Process(FALSE, vtrace[r]), "vec.data", pay[1],
                          pay[2], vroot, "-", rc)
           IN  /\ VecStep(r, p, "done")
               /\ vec' = [vec EXCEPT ![r] =
                             IF p.aborted \/ r = vroot THEN @
                             ELSE Received(@, vtype, pay[1], pay[2],
                                           dataMsg.data)]
               /\ dataMsg' = IF r = vroot /\ ~p.aborted
                             THEN [sent |-> TRUE, data |-> vec[r]]
                             ELSE dataMsg
        /\ UNCHANGED <<vroot, vtype, vec0, vecSize, sizeSent, sizeMsg>>
        /\ VecFrame

NextVec ==
    \/ VecEnter
    \/ VecBcastSize
    \/ VecBcastData

\* The broadcasts rank r has made, in order.
Bcasts(r) == SelectSeq(vtrace[r], LAMBDA e : e.fn = "MPI_Bcast")

\* C6: a rank that has returned from bcast(vec, root) broadcast the count
\* first, as one kINT64 to which it contributed its size if it is the root
\* and 0 otherwise, and the payload second, and its vector is the vector the
\* root had before the call.
C6_VectorBcast ==
    \A r \in Ranks :
        vpc[r] = "done" =>
            /\ vec[r] = vec0[vroot]
            /\ sizeSent[r] = IF r = vroot THEN Len(vec0[r]) ELSE 0
            /\ LET b == Bcasts(r)
               IN  /\ Len(b) = 2
                   /\ b[1].buffer = "&vecSize" /\ b[1].count = 1
                   /\ b[1].dtype = "kINT64" /\ b[1].peer = vroot
                   /\ b[2].buffer = "vec.data" /\ b[2].peer = vroot

C6_Witness ==
    /\ \A r \in Ranks : vpc[r] = "done"
    /\ vtype = CvType("Pod", "")
    /\ Len(vec0[vroot]) = MaxLen
    /\ \E r \in Ranks : r /= vroot /\ Len(vec0[r]) = 1

(***************************************************************************)
(*                       pre_build_script.sh                               *)
(***************************************************************************)

\* The byte value of a character, as the C locale orders them.
Ord(c) ==
    CASE c = "." -> 46
      [] c = "0" -> 48 [] c = "1" -> 49 [] c = "2" -> 50 [] c = "3" -> 51
      [] c = "4" -> 52 [] c = "5" -> 53 [] c = "6" -> 54 [] c = "7" -> 55
      [] c = "8" -> 56 [] c = "9" -> 57
      [] c = "c" -> 99 [] c = "m" -> 109 [] c = "o" -> 111 [] c = "p" -> 112
      [] c = "r" -> 114 [] c = "u" -> 117

\* ${VAR::n}: the first n characters of the value (all of it when shorter).
Substring(s, n) == SubSeq(s, 1, IF Len(s) < n THEN Len(s) ELSE n)

\* [[ a < b ]]: a sorts before b lexicographically.
RECURSIVE StrLess(_, _)
StrLess(a, b) ==
    IF b = <<>> THEN FALSE
    ELSE IF a = <<>> THEN TRUE
    ELSE IF Ord(Head(a)) /= Ord(Head(b)) THEN Ord(Head(a)) < Ord(Head(b))
    ELSE StrLess(Tail(a), Tail(b))

Cu12 == <<"c", "u", "1", "2">>

\* The width of the ${CU_VERSION::4} expansions.
CuPrefixLen == 4

CuPrefix(v) == Substring(v, CuPrefixLen)

\* The condition of the if on line 29.
RewriteCondition(v) == StrLess(CuPrefix(v), Cu12)

\* A requirement of pyproject.toml: pkg [- cu] part rel, as in
\* tensorrt-cu12-bindings==  (pkg "tensorrt", dash, cu "cu12", part "-bindings").
Req(pkg, dash, cu, part, rel) ==
    [pkg |-> pkg, dash |-> dash, cu |-> cu, part |-> part, rel |-> rel]

\* The three sed expressions of lines 31-33, by the part each names.
SedParts == {"", "-bindings", "-libs"}

\* s/tensorrt-cu12<part>==/tensorrt-<prefix><part>==/g on one requirement.
SedReq(r, prefix) ==
    IF r.pkg = "tensorrt" /\ r.dash /\ r.cu = Cu12 /\ r.part \in SedParts
       /\ r.rel = "=="
    THEN [r EXCEPT !.cu = prefix]
    ELSE r

SedFile(file, prefix) == [i \in 1..Len(file) |-> SedReq(file[i], prefix)]

\* Lines 29-35, on the file.
RewritePyproject(file, v) ==
    IF RewriteCondition(v) THEN SedFile(file, CuPrefix(v)) ELSE file

\* What python prints for torch.__version__ / dirname(torch.__file__);
\* nothing when torch cannot be imported.
TorchVersion(t) == IF t = "none" THEN "" ELSE "version-" \o t
TorchPath(t) == IF t = "none" THEN "" ELSE "path-" \o t

\* toolchains/ci_workspaces/MODULE.bazel.tmpl, as tokens: text and ${VAR}s.
Template ==
    << [var |-> FALSE, text |-> "module("],
       [var |-> TRUE, text |-> "TORCH_BUILD_NUMBER"],
       [var |-> FALSE, text |-> "libtorch path"],
       [var |-> TRUE, text |-> "TORCH_INSTALL_PATH"] >>

\* envsubst: every ${VAR} replaced by the value VAR has in the environment.
Envsubst(tmpl, e) ==
    [i \in 1..Len(tmpl) |->
        IF tmpl[i].var THEN e[tmpl[i].text] ELSE tmpl[i].text]

\* The lines of the script that matter here, in the order they run.
ScriptOrder_envsubstFirst ==
    <<"l22", "l23", "l24", "l37", "l26", "l27", "l29", "done">>

ScriptOrder == <<"l22", "l23", "l24", "l26", "l27", "l29", "l37", "done">>

NextLine(l) ==
    LET i == CHOOSE k \in 1..Len(ScriptOrder) : ScriptOrder[k] = l
    IN  ScriptOrder[i + 1]

\* The values of CU_VERSION tried: cu118, cu102, cu92, cu121, cu128, cu130,
\* cpu, rocm6.1 and unset.
CuVersions ==
    { <<"c", "u", "1", "1", "8">>, <<"c", "u", "1", "0", "2">>,
      <<"c", "u", "9", "2">>, <<"c", "u", "1", "2", "1">>,
      <<"c", "u", "1", "2", "8">>, <<"c", "u", "1", "3", "0">>,
      <<"c", "p", "u">>, <<"r", "o", "c", "m", "6", ".", "1">>, <<>> }

\* The pyproject.toml files tried.
Pyprojects ==
    { << Req("torch", FALSE, <<>>, "", ">="),
         Req("tensorrt", TRUE, Cu12, "", "=="),
         Req("tensorrt", TRUE, Cu12, "-bindings", "=="),
         Req("tensorrt", TRUE, Cu12, "-libs", "==") >>,
      << Req("tensorrt", TRUE, Cu12, "", ">="),
         Req("tensorrt", TRUE, Cu12, "-libs", "==") >>,
      << Req("torch", FALSE, <<>>, "", ">=") >> }

EnvNames == {"TORCH_BUILD_NUMBER", "TORCH_INSTALL_PATH"}

NoFile == <<>>

InitBuild ==
    /\ pc = ScriptOrder[1]
    /\ cuVersion \in CuVersions
    /\ pyproject \in Pyprojects
    /\ pyproject0 = pyproject
    /\ torch \in {"none", "old"}
    /\ installOk = FALSE
    /\ env \in [EnvNames -> {"", "stale"}]
    /\ exported = {}
    /\ moduleBazel = NoFile

\* Line 22: pip uninstall -y torch torchvision. The script has no set -e: a
\* failing command does not stop it.
Uninstall ==
    /\ pc = "l22"
    /\ \E ok \in BOOLEAN : torch' = IF ok THEN "none" ELSE torch
    /\ pc' = NextLine(pc)
    /\ UNCHANGED <<fwdVars, convVars, commVars, vecVars>>
    /\ UNCHANGED <<cuVersion, pyproject, pyproject0, installOk, env, exported,
                   moduleBazel>>

\* Line 23: pip install --force-reinstall --pre torch...
Install ==
    /\ pc = "l23"
    /\ \E ok \in BOOLEAN :
          /\ installOk' = ok
          /\ torch' = IF ok THEN "new" ELSE torch
    /\ pc' = NextLine(pc)
    /\ UNCHANGED <<fwdVars, convVars, commVars, vecVars>>
    /\ UNCHANGED <<cuVersion, pyproject, pyproject0, env, exported, moduleBazel>>

\* Line 24: the test requirements.
InstallTestDeps ==
    /\ pc = "l24"
    /\ pc' = NextLine(pc)
    /\ UNCHANGED <<fwdVars, convVars, commVars, vecVars>>
    /\ UNCHANGED <<cuVersion, pyproject, pyproject0, torch, installOk, env,
                   exported, moduleBazel>>

\* Line 26: export TORCH_BUILD_NUMBER=$(python -c "import torch ...").
ExportBuildNumber ==
    /\ pc = "l26"
    /\ env' = [env EXCEPT !["TORCH_BUILD_NUMBER"] = TorchVersion(torch)]
    /\ exported' = exported \cup {"TORCH_BUILD_NUMBER"}
    /\ pc' = NextLine(pc)
    /\ UNCHANGED <<fwdVars, convVars, commVars, vecVars>>
    /\ UNCHANGED <<cuVersion, pyproject, pyproject0, torch, installOk,
                   moduleBazel>>

\* Line 27: export TORCH_INSTALL_PATH=$(python -c "import torch ...").
ExportInstallPath ==
    /\ pc = "l27"
    /\ env' = [env EXCEPT !["TORCH_INSTALL_PATH"] = TorchPath(torch)]
    /\ exported' = exported \cup {"TORCH_INSTALL_PATH"}
    /\ pc' = NextLine(pc)
    /\ UNCHANGED <<fwdVars, convVars, commVars, vecVars>>
    /\ UNCHANGED <<cuVersion, pyproject, pyproject0, torch, installOk,
                   moduleBazel>>

\* Lines 29-35: the conditional sed -i on pyproject.toml.
SedPyproject ==
    /\ pc = "l29"
    /\ pyproject' = RewritePyproject(pyproject, cuVersion)
    /\ pc' = NextLine(pc)
    /\ UNCHANGED <<fwdVars, convVars, commVars, vecVars>>
    /\ UNCHANGED <<cuVersion, pyproject0, torch, installOk, env, exported,
                   moduleBazel>>

\* Line 37: cat MODULE.bazel.tmpl | envsubst > MODULE.bazel.
WriteModuleBazel ==
    /\ pc = "l37"
    /\ moduleBazel' = Envsubst(Template, env)
    /\ pc' = NextLine(pc)
    /\ UNCHANGED <<fwdVars, convVars, commVars, vecVars>>
    /\ UNCHANGED <<cuVersion, pyproject, pyproject0, torch, installOk, env,
                   exported>>

NextBuild ==
    \/ Uninstall
    \/ Install
    \/ InstallTestDeps
    \/ ExportBuildNumber
    \/ ExportInstallPath
    \/ SedPyproject
    \/ WriteModuleBazel

\* The build script before its first line, for the other specifications.
IdleBuild ==
    /\ pc = ScriptOrder[1]
    /\ cuVersion = <<>>
    /\ pyproject = <<>>
    /\ pyproject0 = <<>>
    /\ torch = "none"
    /\ installOk = FALSE
    /\ env = [n \in EnvNames |-> ""]
    /\ exported = {}
    /\ moduleBazel = NoFile

InitOfBuild == InitBuild /\ IdleFwd /\ IdleConv /\ IdleComm /\ IdleVec

InitOfFwd == IdleBuild /\ IdleFwd /\ IdleConv /\ IdleComm /\ IdleVec

InitOfConv ==
    /\ IdleBuild /\ IdleFwd /\ IdleComm /\ IdleVec
    /\ build \in SUBSET BuildFlags
    /\ convA = NoConv
    /\ convB = NoConv

SpecBuild == InitOfBuild /\ [][NextBuild]_vars

SpecFwd == InitOfFwd /\ [][NextFwd]_vars

SpecTyped == InitOfFwd /\ [][NextTyped]_vars

SpecConv == InitOfConv /\ [][NextConv]_vars

SpecComm == InitOfFwd /\ [][NextComm]_vars

InitOfVec == IdleBuild /\ IdleFwd /\ IdleConv /\ IdleComm /\ InitVec

SpecVec == InitOfVec /\ [][NextVec]_vars

\* MODULE.bazel as envsubst writes it for the torch t.
ModuleFor(t) ==
    Envsubst(Template, [n \in EnvNames |->
        IF n = "TORCH_BUILD_NUMBER" THEN TorchVersion(t) ELSE TorchPath(t)])

\* C5 as stated: MODULE.bazel is written only after both exports, and it
\* always carries the version and the path of the torch line 23 installed.
C5_AlwaysFreshTorch ==
    moduleBazel /= NoFile =>
        /\ EnvNames \subseteq exported
        /\ moduleBazel = ModuleFor("new")

\* C5 as amended: MODULE.bazel is written only after both exports and carries
\* what they captured, the version and path of the torch python can import
\* then: those of the freshly installed torch when line 23 succeeded, those
\* of whatever torch is left (or nothing) when it failed.
C5_SubstAfterExports ==
    moduleBazel /= NoFile =>
        /\ EnvNames \subseteq exported
        /\ moduleBazel = ModuleFor(torch)
        /\ installOk => moduleBazel = ModuleFor("new")

C5_Witness ==
    /\ pc = "done"
    /\ installOk
    /\ moduleBazel = ModuleFor("new")

DigitValue(c) == Ord(c) - Ord("0")

IsDigit(c) == Ord(c) >= Ord("0") /\ Ord(c) <= Ord("9")

RECURSIVE Number(_)
Number(ds) ==
    IF ds = <<>> THEN 0
    ELSE 10 * Number(SubSeq(ds, 1, Len(ds) - 1)) + DigitValue(ds[Len(ds)])

\* cu<major><minor digit>: the CUDA major version a CU_VERSION names is older
\* than 12.
CudaOlderThan12(v) ==
    /\ Len(v) >= 4
    /\ v[1] = "c" /\ v[2] = "u"
    /\ \A i \in 3..Len(v) : IsDigit(v[i])
    /\ Number(SubSeq(v, 3, Len(v) - 1)) < 12

\* C9: when the script is done, pyproject.toml has the three tensorrt-cu12
\* names rewritten to the CU_VERSION prefix if CU_VERSION names a CUDA version
\* older than 12, and is as it was for every other CU_VERSION.
C9_RewriteIffOlderThan12 ==
    pc = "done" =>
        pyproject = IF CudaOlderThan12(cuVersion)
                    THEN SedFile(pyproject0, CuPrefix(cuVersion))
                    ELSE pyproject0

====
